---- MODULE Spec2Model ----
(***************************************************************************)
(* Model of the QuantumHarmony node testing agent (scripts/node_agent.py): *)
(* the NodeAgent object, its probes, the two pipelines                     *)
(* (run_health_check, run_full_test) and the reporter (print_summary).     *)
(*                                                                         *)
(* Python values are modelled as tagged records (JSON values); a response  *)
(* of the transport is a JSON object.  A Python exception that leaves a    *)
(* probe is modelled by the probe's outcome carrying raised = TRUE.        *)
(***************************************************************************)
EXTENDS Integers, Sequences, FiniteSets, TLC

(***************************************************************************)
(* Bounds of the model.                                                    *)
(***************************************************************************)
\* the agent starts a pipeline only while the ids the run needs stay <= MaxRpcId
MaxRpcId == 20
\* at most MaxFaults responses that differ from the nominal one, per agent
MaxFaults == 1

(***************************************************************************)
(* JSON / Python values.                                                   *)
(***************************************************************************)
JNull == [k |-> "null"]
JBool(b) == [k |-> "bool", b |-> b]
JNum(n) == [k |-> "num", n |-> n]
JStr(s) == [k |-> "str", s |-> s]
JList(items) == [k |-> "list", items |-> items]
JObj(f) == [k |-> "obj", f |-> f]
EmptyDict == JObj(<<>>)

\* isinstance(v, dict): the values on which .get() exists
IsDict(v) == v.k = "obj"
IsList(v) == v.k = "list"
\* isinstance(v, int): Python's bool is a subclass of int
IsInt(v) == v.k \in {"num", "bool"}
\* key in d, for a dict d
Has(d, key) == key \in DOMAIN d.f
\* d.get(key, default), for a dict d
Get(d, key, default) == IF Has(d, key) THEN d.f[key] ELSE default
\* d.get(key): the default is None
GetNone(d, key) == Get(d, key, JNull)
\* bool(v)
Truthy(v) ==
    CASE v.k = "null" -> FALSE
      [] v.k = "bool" -> v.b
      [] v.k = "num" -> v.n # 0
      [] v.k = "str" -> v.s # ""
      [] v.k = "list" -> Len(v.items) > 0
      [] v.k = "obj" -> DOMAIN v.f # {}
\* x or y
PyOr(x, y) == IF Truthy(x) THEN x ELSE y
\* len(v) raises TypeError unless v is sized
CanLen(v) == v.k \in {"list", "obj", "str"}
PyLen(v) ==
    CASE v.k = "list" -> Len(v.items)
      [] v.k = "obj" -> Cardinality(DOMAIN v.f)
      [] v.k = "str" -> Len(v.s)
\* len(v) if isinstance(v, list) else 0
ListCount(v) == IF IsList(v) THEN Len(v.items) ELSE 0
\* str(v) as an f-string renders it
Str(v) ==
    CASE v.k = "null" -> "None"
      [] v.k = "bool" -> (IF v.b THEN "True" ELSE "False")
      [] v.k = "num" -> ToString(v.n)
      [] v.k = "str" -> v.s
      [] OTHER -> ToString(v)

(***************************************************************************)
(* Text: the conversions the probes apply to strings.                      *)
(***************************************************************************)
\* the characters of the strings the probes parse
Chars(s) ==
    CASE s = "0x0" -> <<"0", "x", "0">>
      [] s = "0x2a" -> <<"0", "x", "2", "a">>
      [] s = "ff" -> <<"f", "f">>
      [] s = "latest" -> <<"l", "a", "t", "e", "s", "t">>
      [] s = "12" -> <<"1", "2">>
      [] s = "0" -> <<"0">>
      [] s = "1" -> <<"1">>
      [] s = "-1" -> <<"-", "1">>
      [] s = "-5" -> <<"-", "5">>
      [] s = "+7" -> <<"+", "7">>
      [] s = "32" -> <<"3", "2">>
      [] s = "1024" -> <<"1", "0", "2", "4">>
      [] s = "1025" -> <<"1", "0", "2", "5">>
      [] s = "5000" -> <<"5", "0", "0", "0">>
      [] s = "100" -> <<"1", "0", "0">>
      [] s = "abc" -> <<"a", "b", "c">>
      [] s = "" -> <<>>
      [] OTHER -> <<"?">>
DigitValue ==
    [c \in {"0", "1", "2", "3", "4", "5", "6", "7", "8", "9", "a", "b", "c", "d", "e", "f"} |->
        CASE c = "0" -> 0 [] c = "1" -> 1 [] c = "2" -> 2 [] c = "3" -> 3
          [] c = "4" -> 4 [] c = "5" -> 5 [] c = "6" -> 6 [] c = "7" -> 7
          [] c = "8" -> 8 [] c = "9" -> 9 [] c = "a" -> 10 [] c = "b" -> 11
          [] c = "c" -> 12 [] c = "d" -> 13 [] c = "e" -> 14 [] c = "f" -> 15]
\* the digits of a literal once int(s, base) has dropped the 0x prefix
Digits(cs, base) ==
    IF base = 16 /\ Len(cs) >= 2 /\ cs[1] = "0" /\ cs[2] = "x"
    THEN SubSeq(cs, 3, Len(cs)) ELSE cs
ValidDigits(ds, base) ==
    /\ Len(ds) > 0
    /\ \A i \in 1..Len(ds) : ds[i] \in DOMAIN DigitValue /\ DigitValue[ds[i]] < base
RECURSIVE DigitsValue(_, _)
DigitsValue(ds, base) ==
    IF Len(ds) = 0 THEN 0
    ELSE DigitsValue(SubSeq(ds, 1, Len(ds) - 1), base) * base + DigitValue[ds[Len(ds)]]
\* int(v, 16) raises TypeError unless v is a str, ValueError unless it is a literal
CanParseHex(v) == v.k = "str" /\ ValidDigits(Digits(Chars(v.s), 16), 16)
ParseHex(v) == DigitsValue(Digits(Chars(v.s), 16), 16)
\* int(v) of a number, a bool or a decimal literal; TypeError / ValueError otherwise
CanInt(v) ==
    \/ v.k \in {"num", "bool"}
    \/ v.k = "str" /\ ValidDigits(Chars(v.s), 10)
PyInt(v) ==
    CASE v.k = "num" -> v.n
      [] v.k = "bool" -> (IF v.b THEN 1 ELSE 0)
      [] v.k = "str" -> DigitsValue(Chars(v.s), 10)
\* the pieces of the error texts in which the probes search for a substring
Tokens(s) ==
    CASE s = "HTTP Error 502: Bad Gateway" -> <<"HTTP Error ", "502", ": ", "Bad Gateway">>
      [] s = "HTTP Error 503: Service Unavailable" -> <<"HTTP Error ", "503", ": ", "Service Unavailable">>
      [] s = "[Errno 111] Connection refused" -> <<"[Errno 111] ", "Connection refused">>
      [] s = "<urlopen error [Errno 111] Connection refused>" ->
            <<"<urlopen error ", "[Errno 111] ", "Connection refused", ">">>
      [] s = "upstream 502" -> <<"upstream ", "502">>
      [] s = "proxy 502: Connection refused" -> <<"proxy ", "502", ": ", "Connection refused">>
      [] s = "502 Bad Gateway - Faucet service is down" ->
            <<"502", " ", "Bad Gateway", " - Faucet service is down">>
      [] s = "Connection refused - Faucet not running" ->
            <<"Connection refused", " - Faucet not running">>
      [] s = "data" -> <<"data">>
      [] OTHER -> <<s>>
\* needle in s, for two strings
Contains(s, needle) == \E i \in 1..Len(Tokens(s)) : Tokens(s)[i] = needle

(***************************************************************************)
(* The network: what one HTTP exchange can end in.                         *)
(***************************************************************************)
\* the response body, decoded by json.loads
NetBody(b) == [t |-> "body", body |-> b]
\* urllib.error.HTTPError with its status code and its str()
NetHttp(code, text) == [t |-> "http", code |-> code, text |-> text]
\* urllib.error.URLError with its reason
NetUrl(reason) == [t |-> "url", text |-> reason]
\* any other exception (socket timeout, invalid JSON) with its str()
NetExc(text) == [t |-> "exc", text |-> text]

NetFailures ==
    { NetHttp(502, "HTTP Error 502: Bad Gateway"),
      NetUrl("[Errno 111] Connection refused"),
      NetExc("timed out") }

\* the JSON-RPC error objects a node returns
RpcErrors ==
    { JObj([code |-> JNum(-32601), message |-> JStr("Method not found")]),
      JObj([code |-> JNum(-32000), message |-> JStr("Server error")]) }

\* the result a healthy node returns for a method
NominalResult(method) ==
    CASE method = "system_health" -> JObj([peers |-> JNum(3), isSyncing |-> JBool(FALSE)])
      [] method = "system_chain" -> JStr("QuantumHarmony")
      [] method = "chain_getHeader" -> JObj([number |-> JStr("0x2a")])
      [] method = "state_getRuntimeVersion" -> JObj([specVersion |-> JNum(1)])
      [] method = "system_name" -> JStr("quantumharmony-node")
      [] method = "system_peers" -> JList(<<JStr("peer-a"), JStr("peer-b")>>)
      [] method = "system_account" -> JObj([data |-> JObj([free |-> JNum(100)])])
      [] method = "qrng_getConfig" -> JObj([threshold_k |-> JNum(2), total_devices_m |-> JNum(3)])
      [] method = "qrng_getDeviceQueues" -> JList(<<JStr("queue-a")>>)
      [] method = "qrng_getReconstructionHistory" -> JList(<<JStr("event-a")>>)
      [] method = "notarial_getAttestationsByOwner" -> JList(<<JStr("attestation-a")>>)
      [] method = "quantumharmony_getGovernanceStats" -> JObj([total_proposals |-> JNum(0)])
      [] method = "quantumharmony_getProposals" -> JList(<<JStr("proposal-a")>>)
      [] method = "quantumharmony_getValidatorSet" -> JList(<<JStr("validator-a")>>)
      [] method = "quantumharmony_getRewardsInfo" ->
            JObj([pending_rewards |-> JStr("0"), reward_multiplier |-> JStr("1")])
      [] method = "gateway_balance" -> JNum(1000)
      [] method = "gateway_nonce" -> JNum(0)

\* results of every JSON shape: null, lists, a primitive, a string, an object
\* without the expected fields
ShapeResults ==
    { JNull, JList(<<>>), JList(<<JStr("x")>>), JNum(7), JStr("abc"), EmptyDict }
\* further results that reach the parsing branches of one probe
MethodResults(method) ==
    CASE method = "chain_getHeader" -> { JObj([number |-> JStr("latest")]), JObj([number |-> JNum(42)]) }
      [] method = "system_account" ->
            { JObj([data |-> JObj([free |-> JStr("12")])]), JObj([data |-> EmptyDict]),
              JObj([data |-> JNull]), JStr("data") }
      [] OTHER -> {}

\* every outcome of the exchange for one JSON-RPC call
RpcNet(method) ==
    { NetBody(JObj([result |-> v])) :
        v \in {NominalResult(method)} \cup ShapeResults \cup MethodResults(method) }
    \cup { NetBody(JObj([error |-> e])) : e \in RpcErrors }
    \cup { NetBody(EmptyDict) }
    \cup NetFailures
NominalRpc(method) == NetBody(JObj([result |-> NominalResult(method)]))

\* every outcome of the exchange for GET /health of the faucet
HealthNet ==
    { NetBody(JObj([status |-> JStr("ok")])),
      NetBody(JObj([healthy |-> JBool(TRUE)])),
      NetBody(JObj([status |-> JStr("degraded")])),
      NetBody(EmptyDict),
      NetBody(JObj([error |-> JObj([message |-> JStr("upstream 502")])])),
      NetBody(JObj([error |-> JObj([message |-> JStr("proxy 502: Connection refused")])])),
      NetBody(JObj([error |-> JObj([message |-> JStr("rate limited")])])),
      NetBody(JObj([error |-> EmptyDict])),
      NetBody(JObj([error |-> JStr("rate limited")])),
      NetHttp(503, "HTTP Error 503: Service Unavailable") }
    \cup NetFailures
NominalHealth == NetBody(JObj([status |-> JStr("ok")]))

\* every outcome of the exchange for POST /drip of the faucet
DripNet ==
    { NetBody(JObj([success |-> JBool(TRUE), hash |-> JStr("0xabc")])),
      NetBody(JObj([hash |-> JStr("0xabc")])),
      NetBody(JObj([success |-> JBool(FALSE)])),
      NetBody(EmptyDict),
      NetBody(JObj([error |-> JObj([message |-> JStr("rate limited")])])) }
    \cup NetFailures
NominalDrip == NetBody(JObj([success |-> JBool(TRUE), hash |-> JStr("0xabc")]))

(***************************************************************************)
(* Transport.  A call returns [raised, resp]: raised = TRUE when a Python  *)
(* exception leaves the call.                                              *)
(***************************************************************************)
Returned(resp) == [raised |-> FALSE, resp |-> resp]
Raised == [raised |-> TRUE, resp |-> JNull]
ErrorResponse(code, text) == JObj([error |-> JObj([code |-> JNum(code), message |-> JStr(text)])])

\* _make_request without its "except urllib.error.HTTPError" clause and its
\* catch-all: an HTTP status error leaves the call
make_request_http_uncaught(aiohttp_available, net) ==
    IF aiohttp_available \/ net.t = "http" THEN Raised
    ELSE CASE net.t = "body" -> Returned(net.body)
           [] net.t = "url" -> Returned(ErrorResponse(-1, net.text))
           [] net.t = "exc" -> Returned(ErrorResponse(-1, net.text))

\* _make_request: when aiohttp is installed the module never imports urllib,
\* the try body raises NameError and so does the evaluation of the first
\* except clause, which names urllib.error
make_request(aiohttp_available, net) ==
    IF aiohttp_available THEN Raised
    ELSE CASE net.t = "body" -> Returned(net.body)
           [] net.t = "http" -> Returned(ErrorResponse(net.code, net.text))
           [] net.t = "url" -> Returned(ErrorResponse(-1, net.text))
           [] net.t = "exc" -> Returned(ErrorResponse(-1, net.text))

\* str(e) of the exception an exchange ends in
ExcText(net) ==
    CASE net.t = "http" -> net.text
      [] net.t = "url" -> "<urlopen error " \o net.text \o ">"
      [] net.t = "exc" -> net.text

\* faucet_call(endpoint, "GET"): every exception, the NameError included, is caught
faucet_get(aiohttp_available, has_faucet_url, net) ==
    IF ~has_faucet_url
    THEN Returned(JObj([error |-> JObj([message |-> JStr("No faucet URL configured")])]))
    ELSE IF aiohttp_available
    THEN Returned(ErrorResponse(-1, "name 'urllib' is not defined"))
    ELSE IF net.t = "body" THEN Returned(net.body)
    ELSE Returned(ErrorResponse(-1, ExcText(net)))

\* faucet_call(endpoint, "POST", data)
faucet_post(aiohttp_available, has_faucet_url, net) ==
    IF ~has_faucet_url
    THEN Returned(JObj([error |-> JObj([message |-> JStr("No faucet URL configured")])]))
    ELSE make_request(aiohttp_available, net)

(***************************************************************************)
(* Probes.  Each operator is the body of one test_ method after its        *)
(* transport calls returned r (r1..r4): it yields the TestResult the       *)
(* method records (recs), its return value (ret), whether an exception     *)
(* left it (raised) and how many transport calls it had issued (calls).    *)
(***************************************************************************)
ALICE == "5GrwvaEF5zXb26Fz9rcQpDWS57CtERHpNehXCPcNoHGKutQY"

\* TestResult(name, passed, message, details); details = None is JNull
TestResult(name, passed, message, details) ==
    [name |-> name, passed |-> passed, message |-> message, details |-> details]
Recorded(entry, ret, calls) == [raised |-> FALSE, recs |-> <<entry>>, ret |-> ret, calls |-> calls]
Escaped(calls) == [raised |-> TRUE, recs |-> <<>>, ret |-> JNull, calls |-> calls]

do_test_connection(r) ==
    IF r.raised THEN Escaped(1)
    ELSE IF Has(r.resp, "result")
    THEN LET health == r.resp.f["result"] IN
         IF ~IsDict(health) THEN Escaped(1)
         ELSE Recorded(TestResult("RPC Connection", TRUE,
                          "Connected - " \o Str(Get(health, "peers", JNum(0)))
                              \o " peers, syncing=" \o Str(Get(health, "isSyncing", JBool(FALSE))),
                          health),
                       JBool(TRUE), 1)
    ELSE LET error == Get(r.resp, "error", EmptyDict) IN
         IF ~IsDict(error) THEN Escaped(1)
         ELSE Recorded(TestResult("RPC Connection", FALSE,
                          "Failed: " \o Str(Get(error, "message", JStr("Unknown error"))),
                          JNull),
                       JBool(FALSE), 1)

do_test_chain_info(r1, r2, r3, r4) ==
    IF r1.raised THEN Escaped(1)
    ELSE IF r2.raised THEN Escaped(2)
    ELSE LET chain_name == Get(r1.resp, "result", JStr("Unknown"))
             has_header == Has(r2.resp, "result")
             header == r2.resp.f["result"]
             number == Get(header, "number", JStr("0x0"))
             block_number == IF has_header THEN ParseHex(number) ELSE 0
             has_runtime == Has(r3.resp, "result")
             runtime == r3.resp.f["result"]
             runtime_version ==
                 IF has_runtime THEN "v" \o Str(Get(runtime, "specVersion", JStr("?")))
                 ELSE "Unknown"
             node_name == Get(r4.resp, "result", JStr("Unknown"))
             info == JObj([chain |-> chain_name, block |-> JNum(block_number),
                           runtime |-> JStr(runtime_version), node_name |-> node_name])
         IN  IF has_header /\ (~IsDict(header) \/ ~CanParseHex(number)) THEN Escaped(2)
             ELSE IF r3.raised THEN Escaped(3)
             ELSE IF has_runtime /\ ~IsDict(runtime) THEN Escaped(3)
             ELSE IF r4.raised THEN Escaped(4)
             ELSE Recorded(TestResult("Chain Info", TRUE,
                              Str(chain_name) \o " @ block #" \o ToString(block_number)
                                  \o " (" \o runtime_version \o ")",
                              info),
                           info, 4)

\* the failure branch returning without a call to record
do_test_peers_silent(r) ==
    IF r.raised THEN Escaped(1)
    ELSE IF Has(r.resp, "result")
    THEN LET peers == r.resp.f["result"] IN
         IF ~CanLen(peers) THEN Escaped(1)
         ELSE Recorded(TestResult("Peer Connections", PyLen(peers) > 0,
                          ToString(PyLen(peers)) \o " peers connected",
                          JObj([peers |-> peers])),
                       peers, 1)
    ELSE [raised |-> FALSE, recs |-> <<>>, ret |-> JList(<<>>), calls |-> 1]

\* an empty peer list accepted
do_test_peers_nonnegative(r) ==
    IF r.raised THEN Escaped(1)
    ELSE IF Has(r.resp, "result")
    THEN LET peers == r.resp.f["result"] IN
         IF ~CanLen(peers) THEN Escaped(1)
         ELSE Recorded(TestResult("Peer Connections", PyLen(peers) >= 0,
                          ToString(PyLen(peers)) \o " peers connected",
                          JObj([peers |-> peers])),
                       peers, 1)
    ELSE Recorded(TestResult("Peer Connections", FALSE, "Failed to get peers", JNull),
                  JList(<<>>), 1)

do_test_peers(r) ==
    IF r.raised THEN Escaped(1)
    ELSE IF Has(r.resp, "result")
    THEN LET peers == r.resp.f["result"] IN
         IF ~CanLen(peers) THEN Escaped(1)
         ELSE Recorded(TestResult("Peer Connections", PyLen(peers) > 0,
                          ToString(PyLen(peers)) \o " peers connected",
                          JObj([peers |-> peers])),
                       peers, 1)
    ELSE Recorded(TestResult("Peer Connections", FALSE, "Failed to get peers", JNull),
                  JList(<<>>), 1)

\* r is the return of faucet_call("/health"); without a faucet URL no call is made
\* every error given the fallback message
do_test_faucet_health_generic(has_faucet_url, r) ==
    IF ~has_faucet_url
    THEN Recorded(TestResult("Faucet Health", FALSE, "No faucet URL configured", JNull),
                  JBool(FALSE), 0)
    ELSE IF r.raised THEN Escaped(1)
    ELSE IF Has(r.resp, "error")
    THEN LET error == r.resp.f["error"] IN
         IF ~IsDict(error) THEN Escaped(1)
         ELSE LET error_msg == Str(Get(error, "message", JStr("Unknown error")))
              IN  Recorded(TestResult("Faucet Health", FALSE, "Error: " \o error_msg, JNull),
                           JBool(FALSE), 1)
    ELSE IF GetNone(r.resp, "status") = JStr("ok") \/ Truthy(GetNone(r.resp, "healthy"))
    THEN Recorded(TestResult("Faucet Health", TRUE, "Faucet service is healthy", r.resp),
                  JBool(TRUE), 1)
    ELSE Recorded(TestResult("Faucet Health", TRUE, "Faucet responded: " \o Str(r.resp), r.resp),
                  JBool(TRUE), 1)

do_test_faucet_health(has_faucet_url, r) ==
    IF ~has_faucet_url
    THEN Recorded(TestResult("Faucet Health", FALSE, "No faucet URL configured", JNull),
                  JBool(FALSE), 0)
    ELSE IF r.raised THEN Escaped(1)
    ELSE IF Has(r.resp, "error")
    THEN LET error == r.resp.f["error"] IN
         IF ~IsDict(error) THEN Escaped(1)
         ELSE LET error_msg == Str(Get(error, "message", JStr("Unknown error")))
                  message ==
                      IF Contains(error_msg, "502") \/ Contains(error_msg, "Bad Gateway")
                      THEN "502 Bad Gateway - Faucet service is down"
                      ELSE IF Contains(error_msg, "Connection refused")
                      THEN "Connection refused - Faucet not running"
                      ELSE "Error: " \o error_msg
              IN  Recorded(TestResult("Faucet Health", FALSE, message, JNull), JBool(FALSE), 1)
    ELSE IF GetNone(r.resp, "status") = JStr("ok") \/ Truthy(GetNone(r.resp, "healthy"))
    THEN Recorded(TestResult("Faucet Health", TRUE, "Faucet service is healthy", r.resp),
                  JBool(TRUE), 1)
    ELSE Recorded(TestResult("Faucet Health", TRUE, "Faucet responded: " \o Str(r.resp), r.resp),
                  JBool(TRUE), 1)

\* r is the return of faucet_call("/drip", "POST", {"address": address})
\* the check of self.faucet_url left to faucet_call
do_test_faucet_drip_unguarded(has_faucet_url, r) ==
    IF r.raised THEN Escaped(1)
    ELSE IF Has(r.resp, "error")
    THEN LET error == r.resp.f["error"] IN
         IF ~IsDict(error) THEN Escaped(1)
         ELSE Recorded(TestResult("Faucet Drip", FALSE,
                          "Failed: " \o Str(Get(error, "message", JStr("Unknown"))), JNull),
                       JBool(FALSE), 1)
    ELSE IF Truthy(GetNone(r.resp, "success")) \/ Truthy(GetNone(r.resp, "hash"))
    THEN Recorded(TestResult("Faucet Drip", TRUE,
                     "Tokens sent! TX: " \o Str(Get(r.resp, "hash", JStr("pending"))), r.resp),
                  JBool(TRUE), 1)
    ELSE Recorded(TestResult("Faucet Drip", FALSE, "Unexpected response: " \o Str(r.resp), JNull),
                  JBool(FALSE), 1)

do_test_faucet_drip(has_faucet_url, r) ==
    IF ~has_faucet_url
    THEN Recorded(TestResult("Faucet Drip", FALSE, "No faucet URL configured", JNull),
                  JBool(FALSE), 0)
    ELSE IF r.raised THEN Escaped(1)
    ELSE IF Has(r.resp, "error")
    THEN LET error == r.resp.f["error"] IN
         IF ~IsDict(error) THEN Escaped(1)
         ELSE Recorded(TestResult("Faucet Drip", FALSE,
                          "Failed: " \o Str(Get(error, "message", JStr("Unknown"))), JNull),
                       JBool(FALSE), 1)
    ELSE IF Truthy(GetNone(r.resp, "success")) \/ Truthy(GetNone(r.resp, "hash"))
    THEN Recorded(TestResult("Faucet Drip", TRUE,
                     "Tokens sent! TX: " \o Str(Get(r.resp, "hash", JStr("pending"))), r.resp),
                  JBool(TRUE), 1)
    ELSE Recorded(TestResult("Faucet Drip", FALSE, "Unexpected response: " \o Str(r.resp), JNull),
                  JBool(FALSE), 1)

\* DEV_ACCOUNTS and the names generate_test_account chooses among
DEV_ACCOUNTS ==
    [Alice |-> ALICE,
     Bob |-> "5FHneW46xGXgs5mUiveU4sbTyGBzmstUspZC92UhjJM694ty",
     Charlie |-> "5FLSigC9HGRKVhB9FiEo4Y3koPsNmBmLJbpXg2mp1hXcS59Y",
     Dave |-> "5DAAnrj7VHTznn2AWBemMuyBwZWs6FNFjdyVXUeYum3PTXFy",
     Eve |-> "5HGjWAeFDfFCWPsjFQdVV2Msvz2XtMktvgocEZcCj68kUMaw",
     Ferdie |-> "5CiPPseXPECbkjWCa6MnjNokrgYjMqmKndv2rSnekmSK2DjL"]
\* the funding account left in the pool
test_names_with_alice == {"Alice", "Bob", "Charlie", "Dave", "Eve", "Ferdie"}
test_names == {"Bob", "Charlie", "Dave", "Eve", "Ferdie"}
\* address[:20] of a dev account
First20(name) ==
    CASE name = "Alice" -> "5GrwvaEF5zXb26Fz9rcQ"
      [] name = "Bob" -> "5FHneW46xGXgs5mUiveU"
      [] name = "Charlie" -> "5FLSigC9HGRKVhB9FiEo"
      [] name = "Dave" -> "5DAAnrj7VHTznn2AWBem"
      [] name = "Eve" -> "5HGjWAeFDfFCWPsjFQdV"
      [] name = "Ferdie" -> "5CiPPseXPECbkjWCa6Mn"

\* name is the outcome of secrets.choice(test_names)
do_generate_test_account(name) ==
    LET address == DEV_ACCOUNTS[name]
        account == JObj([name |-> JStr(name), address |-> JStr(address), type |-> JStr("dev")])
    IN  Recorded(TestResult("Account Selection", TRUE,
                    "Using " \o name \o ": " \o First20(name) \o "...",
                    JObj([address |-> JStr(address), name |-> JStr(name)])),
                 account, 0)

\* "data" in data: TypeError unless data is a container or a str
CanContain(v) == v.k \in {"obj", "list", "str"}
InData(v) ==
    CASE v.k = "obj" -> Has(v, "data")
      [] v.k = "list" -> \E i \in 1..Len(v.items) : v.items[i] = JStr("data")
      [] v.k = "str" -> Contains(v.s, "data")

do_test_account_balance(r) ==
    LET new_account ==
            Recorded(TestResult("Account Balance", TRUE, "Balance: 0 (new account)",
                        JObj([balance |-> JNum(0)])),
                     JNum(0), 1)
    IN
    IF r.raised THEN Escaped(1)
    ELSE IF Has(r.resp, "result")
    THEN LET data == r.resp.f["result"] IN
         IF ~Truthy(data) THEN new_account
         ELSE IF ~CanContain(data) THEN Escaped(1)
         ELSE IF ~InData(data) THEN new_account
         \* data["data"] on a list or a str is a TypeError
         ELSE IF ~IsDict(data) THEN Escaped(1)
         ELSE LET inner == data.f["data"] IN
              IF ~IsDict(inner) THEN Escaped(1)
              ELSE IF ~CanInt(Get(inner, "free", JNum(0))) THEN Escaped(1)
              ELSE LET free == PyInt(Get(inner, "free", JNum(0))) IN
                   Recorded(TestResult("Account Balance", TRUE,
                               "Balance: " \o ToString(free) \o " units",
                               JObj([balance |-> JNum(free)])),
                            JNum(free), 1)
    ELSE new_account

do_test_qrng_config(r) ==
    IF r.raised THEN Escaped(1)
    ELSE IF Has(r.resp, "result")
    THEN LET config == r.resp.f["result"] IN
         IF ~IsDict(config) THEN Escaped(1)
         ELSE Recorded(TestResult("QRNG Config", TRUE,
                          "Threshold: " \o Str(Get(config, "threshold_k", JStr("?")))
                              \o "-of-" \o Str(Get(config, "total_devices_m", JStr("?"))),
                          config),
                       config, 1)
    ELSE Recorded(TestResult("QRNG Config", FALSE, "Failed to get config", JNull), EmptyDict, 1)

do_test_qrng_device_queues(r) ==
    IF r.raised THEN Escaped(1)
    ELSE IF Has(r.resp, "result")
    THEN LET queues == r.resp.f["result"] IN
         Recorded(TestResult("QRNG Queues", TRUE,
                     ToString(ListCount(queues)) \o " device queues", queues),
                  queues, 1)
    ELSE Recorded(TestResult("QRNG Queues", FALSE, "Failed to get device queues", JNull),
                  EmptyDict, 1)

do_test_qrng_reconstruction(r) ==
    IF r.raised THEN Escaped(1)
    ELSE IF Has(r.resp, "result")
    THEN LET history == r.resp.f["result"] IN
         Recorded(TestResult("QRNG History", TRUE,
                     ToString(ListCount(history)) \o " reconstructions",
                     JObj([count |-> JNum(ListCount(history))])),
                  history, 1)
    ELSE Recorded(TestResult("QRNG History", FALSE, "Failed to get history", JNull),
                  JList(<<>>), 1)

\* every error object taken as a failure
do_test_notarial_service_strict(r) ==
    IF r.raised THEN Escaped(1)
    ELSE IF Has(r.resp, "result")
    THEN LET attestations == PyOr(r.resp.f["result"], JList(<<>>)) IN
         Recorded(TestResult("Notarial Service", TRUE,
                     ToString(ListCount(attestations)) \o " attestations found",
                     JObj([count |-> JNum(ListCount(attestations))])),
                  JBool(TRUE), 1)
    ELSE IF Has(r.resp, "error")
    THEN LET error == r.resp.f["error"] IN
         IF ~IsDict(error) THEN Escaped(1)
         ELSE Recorded(TestResult("Notarial Service", FALSE, "Notarial RPC not available", JNull),
                       JBool(FALSE), 1)
    ELSE Recorded(TestResult("Notarial Service", FALSE, "Unexpected response", JNull),
                  JBool(FALSE), 1)

do_test_notarial_service(r) ==
    IF r.raised THEN Escaped(1)
    ELSE IF Has(r.resp, "result")
    THEN LET attestations == PyOr(r.resp.f["result"], JList(<<>>)) IN
         Recorded(TestResult("Notarial Service", TRUE,
                     ToString(ListCount(attestations)) \o " attestations found",
                     JObj([count |-> JNum(ListCount(attestations))])),
                  JBool(TRUE), 1)
    ELSE IF Has(r.resp, "error")
    THEN LET error == r.resp.f["error"] IN
         IF ~IsDict(error) THEN Escaped(1)
         ELSE IF GetNone(error, "code") = JNum(-32601)
         THEN Recorded(TestResult("Notarial Service", FALSE, "Notarial RPC not available", JNull),
                       JBool(FALSE), 1)
         ELSE Recorded(TestResult("Notarial Service", TRUE, "Notarial service responding", r.resp),
                       JBool(TRUE), 1)
    ELSE Recorded(TestResult("Notarial Service", FALSE, "Unexpected response", JNull),
                  JBool(FALSE), 1)

\* the stats left out of the record call
do_test_governance_stats_no_details(r) ==
    IF r.raised THEN Escaped(1)
    ELSE IF Has(r.resp, "result")
    THEN Recorded(TestResult("Governance Stats", TRUE, "Stats retrieved", JNull),
                  r.resp.f["result"], 1)
    ELSE Recorded(TestResult("Governance Stats", FALSE, "Failed to get governance stats", JNull),
                  EmptyDict, 1)

do_test_governance_stats(r) ==
    IF r.raised THEN Escaped(1)
    ELSE IF Has(r.resp, "result")
    THEN Recorded(TestResult("Governance Stats", TRUE, "Stats retrieved", r.resp.f["result"]),
                  r.resp.f["result"], 1)
    ELSE Recorded(TestResult("Governance Stats", FALSE, "Failed to get governance stats", JNull),
                  EmptyDict, 1)

\* the verdict taken from the count, as test_peers does
do_test_proposals_nonempty(r) ==
    IF r.raised THEN Escaped(1)
    ELSE IF Has(r.resp, "result")
    THEN LET proposals == PyOr(r.resp.f["result"], JList(<<>>)) IN
         Recorded(TestResult("Proposals", ListCount(proposals) > 0,
                     ToString(ListCount(proposals)) \o " proposals",
                     JObj([count |-> JNum(ListCount(proposals))])),
                  proposals, 1)
    ELSE Recorded(TestResult("Proposals", FALSE, "Failed to get proposals", JNull),
                  JList(<<>>), 1)

do_test_proposals(r) ==
    IF r.raised THEN Escaped(1)
    ELSE IF Has(r.resp, "result")
    THEN LET proposals == PyOr(r.resp.f["result"], JList(<<>>)) IN
         Recorded(TestResult("Proposals", TRUE,
                     ToString(ListCount(proposals)) \o " proposals",
                     JObj([count |-> JNum(ListCount(proposals))])),
                  proposals, 1)
    ELSE Recorded(TestResult("Proposals", FALSE, "Failed to get proposals", JNull),
                  JList(<<>>), 1)

do_test_validator_set(r) ==
    IF r.raised THEN Escaped(1)
    ELSE IF Has(r.resp, "result")
    THEN LET validators == PyOr(r.resp.f["result"], JList(<<>>)) IN
         Recorded(TestResult("Validator Set", TRUE,
                     ToString(ListCount(validators)) \o " validators",
                     JObj([count |-> JNum(ListCount(validators))])),
                  validators, 1)
    ELSE Recorded(TestResult("Validator Set", FALSE, "Failed to get validator set", JNull),
                  JList(<<>>), 1)

do_test_rewards_info(r) ==
    IF r.raised THEN Escaped(1)
    ELSE IF Has(r.resp, "result")
    THEN LET rewards == r.resp.f["result"] IN
         IF ~IsDict(rewards) THEN Escaped(1)
         ELSE Recorded(TestResult("Rewards Info", TRUE,
                          "Pending: " \o Str(Get(rewards, "pending_rewards", JStr("0")))
                              \o ", Multiplier: " \o Str(Get(rewards, "reward_multiplier", JStr("?"))),
                          rewards),
                       rewards, 1)
    ELSE Recorded(TestResult("Rewards Info", FALSE, "Failed to get rewards info", JNull),
                  EmptyDict, 1)

do_test_gateway_balance(r) ==
    IF r.raised THEN Escaped(1)
    ELSE IF Has(r.resp, "result")
    THEN LET balance == r.resp.f["result"] IN
         Recorded(TestResult("Gateway Balance", TRUE, "Balance: " \o Str(balance),
                     JObj([balance |-> balance])),
                  IF IsInt(balance) THEN balance ELSE JNum(0), 1)
    ELSE Recorded(TestResult("Gateway Balance", FALSE, "Failed to get balance", JNull), JNum(0), 1)

do_test_gateway_nonce(r) ==
    IF r.raised THEN Escaped(1)
    ELSE IF Has(r.resp, "result")
    THEN LET nonce == r.resp.f["result"] IN
         Recorded(TestResult("Gateway Nonce", TRUE, "Nonce: " \o Str(nonce),
                     JObj([nonce |-> nonce])),
                  IF IsInt(nonce) THEN nonce ELSE JNum(0), 1)
    ELSE Recorded(TestResult("Gateway Nonce", FALSE, "Failed to get nonce", JNull), JNum(0), 1)

(***************************************************************************)
(* The NodeAgent and the run in progress.                                  *)
(***************************************************************************)
VARIABLES
    aiohttp_available,  \* AIOHTTP_AVAILABLE, fixed when the module is imported
    has_faucet_url,     \* bool(self.faucet_url)
    results,            \* self.results
    rpc_id,             \* self.rpc_id
    calls,              \* every rpc_call / faucet_call that reached the transport, in order
    mode,               \* the pipeline started last: "none", "health", "full"
    pos,                \* position of the next step in the running pipeline, 0 when none runs
    faucet_healthy,     \* local of run_full_test
    account,            \* local of run_full_test
    outcome,            \* how the latest run ended: "none", "running", "aborted", "reported", "crashed"
    run_start,          \* len(self.results) when the latest run started
    call_start,         \* number of transport calls made before the latest run started
    faults,             \* responses so far that were not the nominal one
    last,               \* the latest probe execution: its name, exchanges and outcome
    summary,            \* what print_summary printed last
    stats,              \* the simulator's stats dictionary, start_time left out
    request,            \* the request the simulator served last
    response,           \* the JSON body the simulator returned last, clock reads left out
    threads,            \* the request threads of the simulator: position and locals of each
    served              \* the requests for random data completed so far and their lengths' sum

simvars == <<stats, request, response, threads, served>>
vars == <<aiohttp_available, has_faucet_url, results, rpc_id, calls, mode, pos,
          faucet_healthy, account, outcome, run_start, call_start, faults, last, summary,
          stats, request, response, threads, served>>

\* run_health_check without its call to test_validator_set
HealthPipeline_no_validator_set ==
    <<"test_connection", "test_chain_info", "test_peers", "test_faucet_health",
      "test_qrng_config", "test_notarial_service", "test_governance_stats",
      "print_summary">>
\* run_health_check with test_qrng_config called before test_faucet_health
HealthPipeline_reordered ==
    <<"test_connection", "test_chain_info", "test_peers", "test_qrng_config",
      "test_faucet_health", "test_notarial_service", "test_governance_stats",
      "test_validator_set", "print_summary">>
HealthPipeline ==
    <<"test_connection", "test_chain_info", "test_peers", "test_faucet_health",
      "test_qrng_config", "test_notarial_service", "test_governance_stats",
      "test_validator_set", "print_summary">>
FullPipeline ==
    <<"test_connection", "test_chain_info", "test_peers", "test_faucet_health",
      "generate_test_account", "test_account_balance", "test_faucet_drip",
      "test_account_balance", "test_gateway_balance", "test_gateway_nonce",
      "test_qrng_config", "test_qrng_device_queues", "test_qrng_reconstruction",
      "test_notarial_service", "test_governance_stats", "test_proposals",
      "test_validator_set", "test_rewards_info", "print_summary">>
Pipeline(m) == IF m = "health" THEN HealthPipeline ELSE FullPipeline
\* the rpc_call invocations one step makes, at most
StepRpcCalls(step) ==
    CASE step = "test_chain_info" -> 4
      [] step \in {"test_faucet_health", "test_faucet_drip", "generate_test_account",
                   "print_summary"} -> 0
      [] OTHER -> 1
RECURSIVE PipelineRpcCalls(_)
PipelineRpcCalls(steps) ==
    IF Len(steps) = 0 THEN 0
    ELSE StepRpcCalls(steps[1]) + PipelineRpcCalls(SubSeq(steps, 2, Len(steps)))

\* the running pipeline is about to call step
At(step) == pos > 0 /\ Pipeline(mode)[pos] = step

\* the abort gate left out: the pipeline goes on whatever test_connection returned
after_connection_no_abort(p, connected) == p + 1
\* the step after test_connection: "if not self.test_connection(): return"
after_connection(p, connected) == IF connected THEN p + 1 ELSE 0
\* the faucet gate left out: the drip and the second balance check always run
after_balance_no_gate(m, p, healthy) == p + 1
\* the step after the first test_account_balance of run_full_test: "if faucet_healthy:"
after_balance(m, p, healthy) == IF m = "full" /\ p = 6 /\ ~healthy THEN p + 3 ELSE p + 1

\* the counter assigned instead of incremented
next_id_reset(id) == 1
\* _next_id
next_id(id) == id + 1
RECURSIVE nth_id(_, _)
nth_id(id, n) == IF n = 0 THEN id ELSE next_id(nth_id(id, n - 1))
\* rpc_call, n times in a row: the envelopes built, each with the id _next_id returned
rpc_calls(id, reqs, n) ==
    [i \in 1..n |-> [fn |-> "rpc_call", id |-> nth_id(id, i),
                     method |-> reqs[i].method, params |-> reqs[i].params]]
Req(method, params) == [method |-> method, params |-> params]
FaucetCall(endpoint, params) == [fn |-> "faucet_call", id |-> 0, method |-> endpoint, params |-> params]

\* the entry inserted at the front of the list
record_front(log, entry) == <<entry>> \o log
\* record
record(log, entry) == Append(log, entry)

(***************************************************************************)
(* The randomness simulator (server.py): one Flask handler per endpoint.   *)
(***************************************************************************)
\* most requests the simulator serves
MaxRequests == 3

\* the query string of a request: no length parameter, or its text
NoArgs == [present |-> FALSE, text |-> ""]
LengthArg(text) == [present |-> TRUE, text |-> text]
LengthTexts == {"0", "-5", "-1", "1", "+7", "12", "32", "100", "1024", "1025", "5000", "abc", ""}
Args == {NoArgs} \cup { LengthArg(t) : t \in LengthTexts }

\* int(text) of a query value: an optional sign and decimal digits, ValueError otherwise
Unsigned(cs) == IF Len(cs) > 0 /\ cs[1] \in {"-", "+"} THEN Tail(cs) ELSE cs
CanIntText(text) == ValidDigits(Unsigned(Chars(text)), 10)
IntText(text) ==
    LET cs == Chars(text) IN
    IF cs[1] = "-" THEN 0 - DigitsValue(Unsigned(cs), 10) ELSE DigitsValue(Unsigned(cs), 10)
\* request.args.get('length', default=32, type=int): the default when the
\* parameter is missing or int raises ValueError
args_get_length(args) ==
    IF args.present /\ CanIntText(args.text) THEN IntText(args.text) ELSE 32

\* the lower limit left out
clamp_no_floor(length) == IF length > 1024 THEN 1024 ELSE length
\* if length < 1: length = 1; if length > 1024: length = 1024
clamp(length) ==
    LET floored == IF length < 1 THEN 1 ELSE length
    IN  IF floored > 1024 THEN 1024 ELSE floored

\* what the random source may deliver: the bytes are seed+1, seed+2, ... mod 256
Seeds == {0, 200}
\* secrets.token_bytes(n) as list(...): n integers in 0..255
token_bytes(n, seed) == [i \in 1..n |-> (seed + i) % 256]
HexDigits == <<"0", "1", "2", "3", "4", "5", "6", "7", "8", "9", "a", "b", "c", "d", "e", "f">>
\* secrets.token_hex(n): the two hex digits of each of n random bytes, as characters
token_hex(n, seed) ==
    [j \in 1..(2 * n) |->
        LET b == token_bytes(n, seed)[(j + 1) \div 2]
        IN  IF j % 2 = 1 THEN HexDigits[(b \div 16) + 1] ELSE HexDigits[(b % 16) + 1]]

NoRequest == [endpoint |-> "none", args |-> NoArgs]
NoResponse == [endpoint |-> "none"]

\* GET /v1/random
get_random ==
    /\ stats.requests < MaxRequests
    /\ \E args \in Args, seed \in Seeds :
         LET length == clamp(args_get_length(args))
             random_bytes == token_bytes(length, seed)
         IN
         /\ request' = [endpoint |-> "/v1/random", args |-> args]
         /\ stats' = [requests |-> stats.requests + 1,
                      bytes_generated |-> stats.bytes_generated + length]
         /\ response' = [endpoint |-> "/v1/random",
                         random_bytes |-> random_bytes,
                         length |-> length,
                         source |-> "crypto4a-simulator",
                         entropy_quality |-> "simulated"]
    /\ UNCHANGED <<aiohttp_available, has_faucet_url, results, rpc_id, calls, mode, pos,
                   faucet_healthy, account, outcome, run_start, call_start, faults, last,
                   summary, threads, served>>

\* GET /v1/random/hex
get_random_hex ==
    /\ stats.requests < MaxRequests
    /\ \E args \in Args, seed \in Seeds :
         LET length == clamp(args_get_length(args))
             random_hex == token_hex(length, seed)
         IN
         /\ request' = [endpoint |-> "/v1/random/hex", args |-> args]
         /\ stats' = [requests |-> stats.requests + 1,
                      bytes_generated |-> stats.bytes_generated + length]
         /\ response' = [endpoint |-> "/v1/random/hex",
                         random_hex |-> random_hex,
                         length |-> length,
                         source |-> "crypto4a-simulator"]
    /\ UNCHANGED <<aiohttp_available, has_faucet_url, results, rpc_id, calls, mode, pos,
                   faucet_healthy, account, outcome, run_start, call_start, faults, last,
                   summary, threads, served>>

\* GET /health
health ==
    /\ request' = [endpoint |-> "/health", args |-> NoArgs]
    /\ response' = [endpoint |-> "/health",
                    status |-> "healthy",
                    service |-> "crypto4a-qrng-simulator",
                    requests_served |-> stats.requests,
                    total_bytes_generated |-> stats.bytes_generated]
    /\ UNCHANGED <<aiohttp_available, has_faucet_url, results, rpc_id, calls, mode, pos,
                   faucet_healthy, account, outcome, run_start, call_start, faults, last,
                   summary, stats, threads, served>>

\* GET /v1/status
status ==
    /\ request' = [endpoint |-> "/v1/status", args |-> NoArgs]
    /\ response' = [endpoint |-> "/v1/status",
                    status |-> "operational",
                    mode |-> "simulator",
                    statistics |-> [total_requests |-> stats.requests,
                                    total_bytes |-> stats.bytes_generated,
                                    entropy_rate_bps |-> 1000000]]
    /\ UNCHANGED <<aiohttp_available, has_faucet_url, results, rpc_id, calls, mode, pos,
                   faucet_healthy, account, outcome, run_start, call_start, faults, last,
                   summary, stats, threads, served>>

(***************************************************************************)
(* The simulator under app.run, which serves each request in a thread of   *)
(* its own: the handlers of /v1/random and /v1/random/hex statement by     *)
(* statement, each += on the shared stats dictionary as a read of the item *)
(* followed by a write of it.                                              *)
(***************************************************************************)
\* the requests the threaded server receives, each served by a thread started for it
MaxThreads == 2
Threads == 1..MaxThreads
\* the query strings of these requests
ConcurrentArgs == {NoArgs, LengthArg("0")}

IdleThread == [pc |-> "idle", endpoint |-> "none", args |-> NoArgs, length |-> 0, seed |-> 0, tmp |-> 0]
DoneThread == [IdleThread EXCEPT !.pc = "done"]
AgentIdle ==
    UNCHANGED <<aiohttp_available, has_faucet_url, results, rpc_id, calls, mode, pos,
                faucet_healthy, account, outcome, run_start, call_start, faults, last, summary>>

\* a request arrives: length is read and limited, the random data generated
handler_begin(t) ==
    /\ threads[t].pc = "idle"
    /\ \E endpoint \in {"/v1/random", "/v1/random/hex"}, args \in ConcurrentArgs, seed \in Seeds :
         threads' = [threads EXCEPT ![t] =
                        [pc |-> "load_requests", endpoint |-> endpoint, args |-> args,
                         length |-> clamp(args_get_length(args)), seed |-> seed, tmp |-> 0]]
    /\ UNCHANGED <<stats, request, response, served>>
    /\ AgentIdle

\* stats['requests'] += 1: the item is read ...
load_requests(t) ==
    /\ threads[t].pc = "load_requests"
    /\ threads' = [threads EXCEPT ![t].pc = "store_requests", ![t].tmp = stats.requests]
    /\ UNCHANGED <<stats, request, response, served>>
    /\ AgentIdle

\* ... and written
store_requests(t) ==
    /\ threads[t].pc = "store_requests"
    /\ stats' = [stats EXCEPT !.requests = threads[t].tmp + 1]
    /\ threads' = [threads EXCEPT ![t].pc = "load_bytes_generated"]
    /\ UNCHANGED <<request, response, served>>
    /\ AgentIdle

\* stats['bytes_generated'] += length: the item is read ...
load_bytes_generated(t) ==
    /\ threads[t].pc = "load_bytes_generated"
    /\ threads' = [threads EXCEPT ![t].pc = "store_bytes_generated",
                                  ![t].tmp = stats.bytes_generated]
    /\ UNCHANGED <<stats, request, response, served>>
    /\ AgentIdle

\* ... and written
store_bytes_generated(t) ==
    /\ threads[t].pc = "store_bytes_generated"
    /\ stats' = [stats EXCEPT !.bytes_generated = threads[t].tmp + threads[t].length]
    /\ threads' = [threads EXCEPT ![t].pc = "return"]
    /\ UNCHANGED <<request, response, served>>
    /\ AgentIdle

\* return jsonify(...): the request is completed
handler_return(t) ==
    /\ threads[t].pc = "return"
    /\ request' = [endpoint |-> threads[t].endpoint, args |-> threads[t].args]
    /\ response' =
          IF threads[t].endpoint = "/v1/random"
          THEN [endpoint |-> "/v1/random",
                random_bytes |-> token_bytes(threads[t].length, threads[t].seed),
                length |-> threads[t].length,
                source |-> "crypto4a-simulator",
                entropy_quality |-> "simulated"]
          ELSE [endpoint |-> "/v1/random/hex",
                random_hex |-> token_hex(threads[t].length, threads[t].seed),
                length |-> threads[t].length,
                source |-> "crypto4a-simulator"]
    /\ served' = [requests |-> served.requests + 1, bytes |-> served.bytes + threads[t].length]
    /\ threads' = [threads EXCEPT ![t] = DoneThread]
    /\ UNCHANGED stats
    /\ AgentIdle

ThreadedNext ==
    \E t \in Threads :
        \/ handler_begin(t)
        \/ load_requests(t)
        \/ store_requests(t)
        \/ load_bytes_generated(t)
        \/ store_bytes_generated(t)
        \/ handler_return(t)

SimNext ==
    \/ get_random
    \/ get_random_hex
    \/ health
    \/ status

NoOutcome == [raised |-> FALSE, recs |-> <<>>, ret |-> JNull, calls |-> 0]
NoSummary == [printed |-> FALSE, passed |-> 0, failed |-> 0, total |-> 0,
              failures |-> <<>>, table |-> <<>>]

\* the exchanges the network may answer with, within the fault budget
Choices(net, nominal, budget) == { n \in net : n = nominal \/ budget > 0 }
\* no exchange takes place when the transport raises before it sends
RpcChoices(method, no_exchange, budget) ==
    IF no_exchange THEN {NominalRpc(method)}
    ELSE Choices(RpcNet(method), NominalRpc(method), budget)
Fault(n, nominal) == IF n = nominal THEN 0 ELSE 1

Init ==
    /\ aiohttp_available \in BOOLEAN
    /\ has_faucet_url \in BOOLEAN
    /\ results = <<>>
    /\ rpc_id = 0
    /\ calls = <<>>
    /\ mode = "none"
    /\ pos = 0
    /\ faucet_healthy = FALSE
    /\ account = JNull
    /\ outcome = "none"
    /\ run_start = 0
    /\ call_start = 0
    /\ faults = 0
    /\ last = [probe |-> "none", nets |-> <<>>, out |-> NoOutcome]
    /\ summary = NoSummary
    /\ stats = [requests |-> 0, bytes_generated |-> 0]
    /\ request = NoRequest
    /\ response = NoResponse
    /\ threads = [t \in Threads |-> IdleThread]
    /\ served = [requests |-> 0, bytes |-> 0]

\* the end of a probe that was called from the running pipeline: its entry is
\* recorded and the pipeline moves to step next (0: the pipeline returns), or
\* the exception leaves the pipeline
Complete(probe, nets, out, newfaults, next) ==
    /\ results' = IF out.recs = <<>> THEN results ELSE record(results, out.recs[1])
    /\ last' = [probe |-> probe, nets |-> nets, out |-> out]
    /\ faults' = faults + newfaults
    /\ IF out.raised
       THEN pos' = 0 /\ outcome' = "crashed"
       ELSE IF next = 0
       THEN pos' = 0 /\ outcome' = "aborted"
       ELSE pos' = next /\ outcome' = outcome
    /\ UNCHANGED <<aiohttp_available, has_faucet_url, mode, run_start, call_start, summary>>
    /\ UNCHANGED simvars

\* a probe that issues one rpc_call and whose result the pipeline ignores
RpcProbe(probe, method, params, Do(_)) ==
    /\ At(probe)
    /\ \E n \in RpcChoices(method, aiohttp_available, MaxFaults - faults) :
         LET out == Do(make_request(aiohttp_available, n)) IN
         /\ calls' = calls \o rpc_calls(rpc_id, <<Req(method, params)>>, 1)
         /\ rpc_id' = nth_id(rpc_id, 1)
         /\ Complete(probe, <<n>>, out, Fault(n, NominalRpc(method)),
                     after_balance(mode, pos, faucet_healthy))
    /\ UNCHANGED <<faucet_healthy, account>>

run_health_check ==
    /\ pos = 0 /\ outcome # "crashed"
    /\ rpc_id + PipelineRpcCalls(HealthPipeline) <= MaxRpcId
    /\ mode' = "health" /\ pos' = 1 /\ outcome' = "running"
    /\ run_start' = Len(results) /\ call_start' = Len(calls)
    /\ UNCHANGED <<aiohttp_available, has_faucet_url, results, rpc_id, calls,
                   faucet_healthy, account, faults, last, summary>>
    /\ UNCHANGED simvars

run_full_test ==
    /\ pos = 0 /\ outcome # "crashed"
    /\ rpc_id + PipelineRpcCalls(FullPipeline) <= MaxRpcId
    /\ mode' = "full" /\ pos' = 1 /\ outcome' = "running"
    /\ run_start' = Len(results) /\ call_start' = Len(calls)
    /\ faucet_healthy' = FALSE /\ account' = JNull
    /\ UNCHANGED <<aiohttp_available, has_faucet_url, results, rpc_id, calls,
                   faults, last, summary>>
    /\ UNCHANGED simvars

test_connection ==
    /\ At("test_connection")
    /\ \E n \in RpcChoices("system_health", aiohttp_available, MaxFaults - faults) :
         LET out == do_test_connection(make_request(aiohttp_available, n)) IN
         /\ calls' = calls \o rpc_calls(rpc_id, <<Req("system_health", <<>>)>>, 1)
         /\ rpc_id' = nth_id(rpc_id, 1)
         /\ Complete("test_connection", <<n>>, out, Fault(n, NominalRpc("system_health")),
                     after_connection(pos, out.ret = JBool(TRUE)))
    /\ UNCHANGED <<faucet_healthy, account>>

ChainInfoReqs ==
    <<Req("system_chain", <<>>), Req("chain_getHeader", <<>>),
      Req("state_getRuntimeVersion", <<>>), Req("system_name", <<>>)>>

test_chain_info ==
    /\ At("test_chain_info")
    /\ \E n1 \in RpcChoices("system_chain", aiohttp_available, MaxFaults - faults),
          n2 \in RpcChoices("chain_getHeader", aiohttp_available, MaxFaults - faults),
          n3 \in RpcChoices("state_getRuntimeVersion", aiohttp_available, MaxFaults - faults),
          n4 \in RpcChoices("system_name", aiohttp_available, MaxFaults - faults) :
         LET nets == <<n1, n2, n3, n4>>
             out == do_test_chain_info(make_request(aiohttp_available, n1),
                                       make_request(aiohttp_available, n2),
                                       make_request(aiohttp_available, n3),
                                       make_request(aiohttp_available, n4))
             newfaults == Fault(n1, NominalRpc("system_chain"))
                          + Fault(n2, NominalRpc("chain_getHeader"))
                          + Fault(n3, NominalRpc("state_getRuntimeVersion"))
                          + Fault(n4, NominalRpc("system_name"))
         IN
         /\ faults + newfaults <= MaxFaults
         \* a call that is never issued has no exchange
         /\ \A i \in (out.calls + 1)..4 : nets[i] = NominalRpc(ChainInfoReqs[i].method)
         /\ calls' = calls \o rpc_calls(rpc_id, ChainInfoReqs, out.calls)
         /\ rpc_id' = nth_id(rpc_id, out.calls)
         /\ Complete("test_chain_info", SubSeq(nets, 1, out.calls), out, newfaults, pos + 1)
    /\ UNCHANGED <<faucet_healthy, account>>

test_peers == RpcProbe("test_peers", "system_peers", <<>>, do_test_peers)

test_faucet_health ==
    /\ At("test_faucet_health")
    /\ \E n \in IF has_faucet_url /\ ~aiohttp_available
                THEN Choices(HealthNet, NominalHealth, MaxFaults - faults)
                ELSE {NominalHealth} :
         LET out == do_test_faucet_health(has_faucet_url,
                                          faucet_get(aiohttp_available, has_faucet_url, n))
         IN
         /\ calls' = IF has_faucet_url THEN Append(calls, FaucetCall("GET /health", <<>>)) ELSE calls
         /\ faucet_healthy' = IF mode = "full" THEN out.ret = JBool(TRUE) ELSE faucet_healthy
         /\ Complete("test_faucet_health", IF has_faucet_url THEN <<n>> ELSE <<>>, out,
                     Fault(n, NominalHealth), pos + 1)
    /\ UNCHANGED <<rpc_id, account>>

generate_test_account ==
    /\ At("generate_test_account")
    /\ \E name \in test_names :
         LET out == do_generate_test_account(name) IN
         /\ account' = out.ret
         /\ Complete("generate_test_account", <<>>, out, 0, pos + 1)
    /\ UNCHANGED <<rpc_id, calls, faucet_healthy>>

\* the balance of the funding account queried instead of the selected one
test_account_balance_alice ==
    RpcProbe("test_account_balance", "system_account", <<JStr(ALICE)>>, do_test_account_balance)

test_account_balance ==
    RpcProbe("test_account_balance", "system_account", <<account.f["address"]>>,
             do_test_account_balance)

test_faucet_drip ==
    /\ At("test_faucet_drip")
    /\ \E n \in IF has_faucet_url /\ ~aiohttp_available
                THEN Choices(DripNet, NominalDrip, MaxFaults - faults)
                ELSE {NominalDrip} :
         LET out == do_test_faucet_drip(has_faucet_url,
                                        faucet_post(aiohttp_available, has_faucet_url, n))
         IN
         /\ calls' = IF has_faucet_url
                     THEN Append(calls, FaucetCall("POST /drip", <<account.f["address"]>>))
                     ELSE calls
         /\ Complete("test_faucet_drip", IF has_faucet_url THEN <<n>> ELSE <<>>, out,
                     Fault(n, NominalDrip), pos + 1)
    /\ UNCHANGED <<rpc_id, faucet_healthy, account>>

test_gateway_balance ==
    RpcProbe("test_gateway_balance", "gateway_balance", <<JStr(ALICE)>>, do_test_gateway_balance)

test_gateway_nonce ==
    RpcProbe("test_gateway_nonce", "gateway_nonce", <<JStr(ALICE)>>, do_test_gateway_nonce)

test_qrng_config == RpcProbe("test_qrng_config", "qrng_getConfig", <<>>, do_test_qrng_config)

test_qrng_device_queues ==
    RpcProbe("test_qrng_device_queues", "qrng_getDeviceQueues", <<>>, do_test_qrng_device_queues)

test_qrng_reconstruction ==
    RpcProbe("test_qrng_reconstruction", "qrng_getReconstructionHistory", <<JNum(10)>>,
             do_test_qrng_reconstruction)

test_notarial_service ==
    RpcProbe("test_notarial_service", "notarial_getAttestationsByOwner", <<JStr(ALICE)>>,
             do_test_notarial_service)

test_governance_stats ==
    RpcProbe("test_governance_stats", "quantumharmony_getGovernanceStats", <<>>,
             do_test_governance_stats)

test_proposals ==
    RpcProbe("test_proposals", "quantumharmony_getProposals", <<>>, do_test_proposals)

test_validator_set ==
    RpcProbe("test_validator_set", "quantumharmony_getValidatorSet", <<>>, do_test_validator_set)

\* test_rewards_info(): the address defaults to Alice's
test_rewards_info ==
    RpcProbe("test_rewards_info", "quantumharmony_getRewardsInfo", <<JStr(ALICE)>>,
             do_test_rewards_info)

(***************************************************************************)
(* Reporter.                                                               *)
(***************************************************************************)
\* the keys of the services dict of print_summary, in its order
services ==
    <<"RPC Connection", "Faucet Health", "QRNG Config", "Notarial Service",
      "Governance Stats", "Validator Set">>

Indices(log, name) == { i \in 1..Len(log) : log[i].name = name }
Lowest(S) == CHOOSE i \in S : \A j \in S : i <= j
Highest(S) == CHOOSE i \in S : \A j \in S : i >= j
\* next((r for r in self.results if r.name == test_name), None): the index of
\* the entry found, 0 for None
lookup(log, name) == IF Indices(log, name) = {} THEN 0 ELSE Lowest(Indices(log, name))
\* a name that is not in the log shown as a failing one
status_of_absent_offline(log, name) ==
    IF lookup(log, name) = 0 THEN "OFFLINE"
    ELSE IF log[lookup(log, name)].passed THEN "ONLINE" ELSE "OFFLINE"

\* the status cell of one service
status_of(log, name) ==
    IF lookup(log, name) = 0 THEN "UNKNOWN"
    ELSE IF log[lookup(log, name)].passed THEN "ONLINE" ELSE "OFFLINE"

\* the entries r of log with r.passed = flag, in order
RECURSIVE Select(_, _)
Select(log, flag) ==
    IF Len(log) = 0 THEN <<>>
    ELSE LET rest == Select(SubSeq(log, 1, Len(log) - 1), flag)
             r == log[Len(log)]
         IN  IF r.passed = flag THEN Append(rest, r) ELSE rest

do_print_summary(log) ==
    [printed |-> TRUE,
     passed |-> Len(Select(log, TRUE)),
     failed |-> Len(Select(log, FALSE)),
     total |-> Len(log),
     failures |-> [i \in 1..Len(Select(log, FALSE)) |->
                      <<Select(log, FALSE)[i].name, Select(log, FALSE)[i].message>>],
     table |-> [i \in 1..Len(services) |-> status_of(log, services[i])]]

\* print_summary, as the last step of a pipeline or called on an idle agent;
\* it reads self.results and writes nothing but its output
print_summary ==
    /\ \/ At("print_summary")
       \/ pos = 0 /\ outcome # "crashed"
    /\ summary' = do_print_summary(results)
    /\ pos' = 0
    /\ outcome' = IF pos = 0 THEN outcome ELSE "reported"
    /\ results' = results
    /\ UNCHANGED <<aiohttp_available, has_faucet_url, rpc_id, calls, mode, faucet_healthy,
                   account, run_start, call_start, faults, last>>
    /\ UNCHANGED simvars

Next ==
    \/ run_health_check
    \/ run_full_test
    \/ test_connection
    \/ test_chain_info
    \/ test_peers
    \/ test_faucet_health
    \/ generate_test_account
    \/ test_account_balance
    \/ test_faucet_drip
    \/ test_gateway_balance
    \/ test_gateway_nonce
    \/ test_qrng_config
    \/ test_qrng_device_queues
    \/ test_qrng_reconstruction
    \/ test_notarial_service
    \/ test_governance_stats
    \/ test_proposals
    \/ test_validator_set
    \/ test_rewards_info
    \/ print_summary

Spec == Init /\ [][Next]_vars

\* a step of the running pipeline: the pipeline is straight-line synchronous
\* code, every urlopen has timeout=10 and the only wait is time.sleep(2), so a
\* pipeline that has a next step takes it
PipelineStep == pos > 0 /\ Next
FairSpec == Spec /\ WF_vars(PipelineStep)

(***************************************************************************)
(* The faucet probes called on their own, as public methods of NodeAgent,  *)
(* by a caller that runs no pipeline on that agent afterwards.             *)
(***************************************************************************)
\* most probes called on their own
MaxDirectCalls == 2
\* the addresses a caller passes to test_faucet_drip
DirectAddresses == {ALICE, DEV_ACCOUNTS["Bob"]}

Callable == pos = 0 /\ mode = "none" /\ outcome # "crashed" /\ Len(results) < MaxDirectCalls
\* the end of a probe that was called on its own: its entry is recorded, or the
\* exception reaches the caller
DirectComplete(probe, nets, out, newfaults) ==
    /\ results' = IF out.recs = <<>> THEN results ELSE record(results, out.recs[1])
    /\ last' = [probe |-> probe, nets |-> nets, out |-> out]
    /\ faults' = faults + newfaults
    /\ outcome' = IF out.raised THEN "crashed" ELSE outcome
    /\ UNCHANGED <<aiohttp_available, has_faucet_url, rpc_id, mode, pos, faucet_healthy,
                   account, run_start, call_start, summary>>
    /\ UNCHANGED simvars

call_test_faucet_health ==
    /\ Callable
    /\ \E n \in IF has_faucet_url /\ ~aiohttp_available
                THEN Choices(HealthNet, NominalHealth, MaxFaults - faults)
                ELSE {NominalHealth} :
         LET out == do_test_faucet_health(has_faucet_url,
                                          faucet_get(aiohttp_available, has_faucet_url, n))
         IN
         /\ calls' = IF has_faucet_url THEN Append(calls, FaucetCall("GET /health", <<>>)) ELSE calls
         /\ DirectComplete("test_faucet_health", IF has_faucet_url THEN <<n>> ELSE <<>>, out,
                           Fault(n, NominalHealth))

call_test_faucet_drip ==
    /\ Callable
    /\ \E address \in DirectAddresses :
       \E n \in IF has_faucet_url /\ ~aiohttp_available
                THEN Choices(DripNet, NominalDrip, MaxFaults - faults)
                ELSE {NominalDrip} :
         LET out == do_test_faucet_drip(has_faucet_url,
                                        faucet_post(aiohttp_available, has_faucet_url, n))
         IN
         /\ calls' = IF has_faucet_url
                     THEN Append(calls, FaucetCall("POST /drip", <<JStr(address)>>))
                     ELSE calls
         /\ DirectComplete("test_faucet_drip", IF has_faucet_url THEN <<n>> ELSE <<>>, out,
                           Fault(n, NominalDrip))

\* a step of main, on an agent whose probes were not called on their own
MainStep == (mode = "none" => results = <<>>) /\ Next
DirectNext ==
    \/ MainStep
    \/ call_test_faucet_health
    \/ call_test_faucet_drip

DirectSpec == Init /\ [][DirectNext]_vars

\* the simulator process, serving one request at a time; the agent is not running
SimInit == Init /\ ~aiohttp_available /\ ~has_faucet_url
SimSpec == SimInit /\ [][SimNext]_vars
\* the simulator process serving its requests in threads
ThreadedSpec == SimInit /\ [][ThreadedNext]_vars

(***************************************************************************)
(* Properties.                                                             *)
(***************************************************************************)
\* the entries the latest run recorded, and their names
RunEntries == SubSeq(results, run_start + 1, Len(results))
RunNames == [i \in 1..Len(RunEntries) |-> RunEntries[i].name]
\* the transport calls of the latest run
RunCalls == SubSeq(calls, call_start + 1, Len(calls))
IsPrefix(a, b) == Len(a) <= Len(b) /\ SubSeq(b, 1, Len(a)) = a
Count(names, name) == Cardinality({ i \in 1..Len(names) : names[i] = name })
\* the latest run recorded a Connectivity entry with this verdict
ConnectivityWas(verdict) ==
    /\ Len(RunEntries) >= 1
    /\ RunEntries[1].name = "RPC Connection"
    /\ RunEntries[1].passed = verdict

\* C1: in either pipeline, a run whose Connectivity probe failed has recorded
\* exactly one entry, ("RPC Connection", passed = false), and has ended there:
\* no other probe is recorded in that run.
C1_AbortRecordsOnlyConnectivity ==
    ConnectivityWas(FALSE) =>
        /\ Len(results) = run_start + 1
        /\ pos = 0
        /\ outcome = "aborted"
        /\ last.probe = "test_connection"
\* a full-pipeline run was aborted after Connectivity failed
C1_Witness ==
    /\ mode = "full" /\ outcome = "aborted"
    /\ ConnectivityWas(FALSE) /\ Len(results) = 1

\* C2: after Connectivity passed, the run never stops early: whatever the later
\* responses are, it is still running or it has reached the Report.
C2_NeverStopsEarly ==
    ConnectivityWas(TRUE) => outcome \in {"running", "reported"}

\* C3: no exception escapes a probe: for every response the transport returns,
\* the probe returns normally.
C3_NoExceptionEscapes ==
    ~aiohttp_available => (~last.out.raised /\ outcome # "crashed")

\* the status of the most recently recorded entry with this name
latest_status(log, name) ==
    IF Indices(log, name) = {} THEN "UNKNOWN"
    ELSE IF log[Highest(Indices(log, name))].passed THEN "ONLINE" ELSE "OFFLINE"
\* the log print_summary read when it printed the current summary
PrintedLog == SubSeq(results, 1, summary.total)

\* C4: the status the category table shows for a canonical name is that of the
\* most recently recorded entry with that name.
C4_LatestEntryWins ==
    summary.printed =>
        \A i \in 1..Len(services) :
            summary.table[i] = latest_status(PrintedLog, services[i])

\* the names the health pipeline records, in order
HealthOrder ==
    <<"RPC Connection", "Chain Info", "Peer Connections", "Faucet Health",
      "QRNG Config", "Notarial Service", "Governance Stats", "Validator Set">>

\* C5: a health run whose Connectivity passed records its entries in the order
\* RPC Connection, Chain Info, Peer Connections, Faucet Health, QRNG Config,
\* Notarial Service, Governance Stats, Validator Set, one per position, and the
\* Report is produced only after all eight.
C5_HealthOrder ==
    mode = "health" =>
        /\ IsPrefix(RunNames, HealthOrder)
        /\ (pos > 0 /\ ConnectivityWas(TRUE)) => Len(RunNames) = pos - 1
        /\ outcome = "reported" => (RunNames = HealthOrder /\ summary.total = Len(results))
\* a health run has reported
C5_Witness ==
    mode = "health" /\ outcome = "reported" /\ Len(RunEntries) = 8 /\ ConnectivityWas(TRUE)

\* the Faucet Health entry of the latest run passed
FaucetHealthPassed ==
    \E i \in 1..Len(RunEntries) :
        RunEntries[i].name = "Faucet Health" /\ RunEntries[i].passed

\* C6: a full run records a Faucet Drip entry and a second Account Balance entry
\* if and only if its Faucet Health entry passed; otherwise no Faucet Drip and
\* exactly one Account Balance; a failed drip does not suppress the second
\* balance check.
C6_DripIffFaucetHealthy ==
    mode = "full" =>
        /\ Count(RunNames, "Faucet Drip") >= 1 => FaucetHealthPassed
        /\ Count(RunNames, "Account Balance") >= 2 => Count(RunNames, "Faucet Drip") = 1
        /\ outcome = "reported" =>
              IF FaucetHealthPassed
              THEN Count(RunNames, "Faucet Drip") = 1 /\ Count(RunNames, "Account Balance") = 2
              ELSE Count(RunNames, "Faucet Drip") = 0 /\ Count(RunNames, "Account Balance") = 1
\* a full run reported after a failed drip, with both balance entries
C6_Witness ==
    /\ mode = "full" /\ outcome = "reported" /\ FaucetHealthPassed
    /\ \E i \in 1..Len(RunEntries) :
          RunEntries[i].name = "Faucet Drip" /\ ~RunEntries[i].passed
    /\ Count(RunNames, "Account Balance") = 2

\* the addresses the latest run passed to system_account
BalanceQueries ==
    LET idx == { i \in 1..Len(RunCalls) : RunCalls[i].method = "system_account" }
    IN  { RunCalls[i].params : i \in idx }
BalanceQueryCount ==
    Cardinality({ i \in 1..Len(RunCalls) : RunCalls[i].method = "system_account" })

\* C7: in a full run whose Faucet Health passed, Account Balance is queried
\* twice, both times for the address of the account Account Selection chose,
\* and the log holds Account Selection, Account Balance, Faucet Drip, Account
\* Balance in this order, the drip between the two balance entries.
C7_TwoBalancesAroundDrip ==
    (mode = "full" /\ outcome = "reported" /\ FaucetHealthPassed) =>
        /\ SubSeq(RunNames, 5, 8) =
              <<"Account Selection", "Account Balance", "Faucet Drip", "Account Balance">>
        /\ BalanceQueryCount = 2
        /\ BalanceQueries = { <<RunEntries[5].details.f["address"]>> }
        /\ BalanceQueries = { <<account.f["address"]>> }
        /\ RunEntries[5].details.f["address"].s \in
              { DEV_ACCOUNTS[n] : n \in {"Bob", "Charlie", "Dave", "Eve", "Ferdie"} }
\* scenario 4: the drip returned success and a hash, the run reported
C7_Witness ==
    /\ mode = "full" /\ outcome = "reported" /\ FaucetHealthPassed
    /\ Len(RunEntries) >= 8
    /\ RunEntries[7].name = "Faucet Drip" /\ RunEntries[7].passed
    /\ RunEntries[7].message = "Tokens sent! TX: 0xabc"
    /\ BalanceQueryCount = 2

\* the latest probe execution met a transport-level failure
TransportFailed(l) == \E i \in 1..Len(l.nets) : l.nets[i] \in NetFailures
\* the probes that record passed = true whatever their call returned
PassOnFailure == {"test_chain_info", "test_account_balance", "test_notarial_service"}

\* C8 as stated: a transport-level failure of a probe's call is recorded as a
\* failing probe and does not end the run, for every probe.
C8_TransportFailureFails ==
    [][ (calls' # calls /\ TransportFailed(last'))
            => /\ ~last'.out.raised
               /\ results' = Append(results, last'.out.recs[1])
               /\ ~results'[Len(results')].passed
               /\ pos' # 0 ]_vars
\* C8 amended: a transport-level failure of a probe's call is handed to the
\* probe as an error object: a probe whose only call failed returns normally,
\* and the entry a probe records after such a failure is a failing one for
\* every probe but Chain Info, Account Balance and Notarial Service, which
\* record a pass; it ends the run only when the probe is Connectivity.
C8_TransportFailureRecorded ==
    [][ (calls' # calls /\ TransportFailed(last'))
            => /\ Len(last'.nets) = 1 => ~last'.out.raised
               /\ ~last'.out.raised =>
                     /\ results' = Append(results, last'.out.recs[1])
                     /\ results'[Len(results')].passed = (last'.probe \in PassOnFailure)
                     /\ (pos' = 0) = (last'.probe = "test_connection") ]_vars
\* Notarial Service recorded a pass although its call failed in the transport
C8_Witness ==
    /\ last.probe = "test_notarial_service" /\ TransportFailed(last)
    /\ results[Len(results)].name = "Notarial Service"
    /\ results[Len(results)].passed
    /\ pos > 0

\* the ids of the JSON-RPC envelopes issued so far, in order
RpcIndices == { i \in 1..Len(calls) : calls[i].fn = "rpc_call" }
IssuedIds == { calls[i].id : i \in RpcIndices }

\* C9: the ids issued by rpc_call on one agent are pairwise distinct and
\* strictly increasing, and the counter is never reset: it is the id issued last.
C9_IdsUniqueIncreasing ==
    /\ \A i, j \in RpcIndices : i < j => calls[i].id < calls[j].id
    /\ Cardinality(IssuedIds) = Cardinality(RpcIndices)
    /\ \A i \in RpcIndices : calls[i].id <= rpc_id
    /\ RpcIndices # {} => rpc_id \in IssuedIds
\* a second run on the same agent has issued ids
C9_Witness ==
    /\ run_start > 0 /\ call_start > 0
    /\ Cardinality(RpcIndices) >= 12
    /\ \E i \in RpcIndices : i > call_start

\* C10: the ResultLog is append-only: a step leaves every recorded entry at its
\* position, unchanged, and adds at most one entry, at the end, which is the
\* entry of the probe that has just executed.
C10_AppendOnly ==
    [][ /\ Len(results') >= Len(results)
        /\ SubSeq(results', 1, Len(results)) = results
        /\ results' # results =>
              /\ last'.out.recs # <<>>
              /\ results' = Append(results, last'.out.recs[1]) ]_vars
\* a report was printed and a later run has appended to the log it read
C10_Witness ==
    /\ summary.printed /\ summary.total >= 1
    /\ Len(results) > summary.total

\* the name under which each probe records
EntryName(step) ==
    CASE step = "test_connection" -> "RPC Connection"
      [] step = "test_chain_info" -> "Chain Info"
      [] step = "test_peers" -> "Peer Connections"
      [] step = "test_faucet_health" -> "Faucet Health"
      [] step = "test_faucet_drip" -> "Faucet Drip"
      [] step = "generate_test_account" -> "Account Selection"
      [] step = "test_account_balance" -> "Account Balance"
      [] step = "test_qrng_config" -> "QRNG Config"
      [] step = "test_qrng_device_queues" -> "QRNG Queues"
      [] step = "test_qrng_reconstruction" -> "QRNG History"
      [] step = "test_notarial_service" -> "Notarial Service"
      [] step = "test_governance_stats" -> "Governance Stats"
      [] step = "test_proposals" -> "Proposals"
      [] step = "test_validator_set" -> "Validator Set"
      [] step = "test_rewards_info" -> "Rewards Info"
      [] step = "test_gateway_balance" -> "Gateway Balance"
      [] step = "test_gateway_nonce" -> "Gateway Nonce"

\* C11: a probe invocation that returns has written exactly one entry to the
\* ResultLog, under its own name, on every branch; Chain Info, which issues
\* four RPC calls, records a single entry.
C11_OneEntryPerProbe ==
    [][ (pos > 0 /\ Pipeline(mode)[pos] # "print_summary" /\ pos' # pos /\ outcome' # "crashed")
            => /\ Len(results') = Len(results) + 1
               /\ SubSeq(results', 1, Len(results)) = results
               /\ results'[Len(results')].name = EntryName(Pipeline(mode)[pos])
               /\ last'.probe = Pipeline(mode)[pos]
               /\ Len(calls') - Len(calls) <= 4 ]_vars
\* Chain Info has issued its four calls and recorded one entry
C11_Witness ==
    /\ last.probe = "test_chain_info" /\ ~last.out.raised
    /\ Len(RunCalls) = 5 /\ Len(RunEntries) = 2
    /\ RunEntries[2].name = "Chain Info"

\* the transport calls of the latest probe execution, the response it got from
\* its i-th call and the entry it recorded
LastCalls == SubSeq(calls, Len(calls) - Len(last.nets) + 1, Len(calls))
LastResponse(i) == make_request(FALSE, last.nets[i]).resp
LastHasResult(i) == LastCalls[i].fn = "rpc_call" /\ Has(LastResponse(i), "result")
LastResult(i) == LastResponse(i).f["result"]
LastEntry == last.out.recs[1]
\* a result of the JSON type the method returns on a healthy node
WellFormedResults(method) ==
    {NominalResult(method)} \cup { v \in ShapeResults : v.k = NominalResult(method).k }
\* every call of the latest probe execution returned a well-formed result
LastWellFormed ==
    /\ ~aiohttp_available
    /\ Len(last.nets) >= 1
    /\ \A i \in 1..Len(last.nets) :
          /\ LastHasResult(i)
          /\ LastResult(i) \in WellFormedResults(LastCalls[i].method)
\* details equals the result or holds it under one of its keys
Contained(details, v) ==
    \/ details = v
    \/ IsDict(details) /\ \E key \in DOMAIN details.f : details.f[key] = v

\* C12 as stated: every probe that got a well-formed response with a result
\* key records passed = true and details that equal or contain that result.
C12_ResultPassesWithDetails ==
    LastWellFormed =>
        /\ ~last.out.raised
        /\ LastEntry.passed
        /\ Len(last.nets) = 1 => Contained(LastEntry.details, LastResult(1))

\* the probes whose details equal or contain the result
DetailsHoldResult ==
    {"test_connection", "test_peers", "test_qrng_config", "test_qrng_device_queues",
     "test_governance_stats", "test_rewards_info", "test_gateway_balance", "test_gateway_nonce"}
\* the probes whose details are the number of items of the result
DetailsHoldCount ==
    {"test_qrng_reconstruction", "test_notarial_service", "test_proposals", "test_validator_set"}

\* C12 amended: a probe that got a well-formed response with a result key
\* returns and records passed = true, except Peers, which records passed =
\* false for an empty list; details equal or contain the result for
\* Connectivity, Peers, QRNG Config, QRNG Queues, Governance Stats, Rewards
\* Info and the gateway probes, and hold only values derived from it for the
\* others: the item count (QRNG History, Notarial, Proposals, Validator Set),
\* the free balance (Account Balance), the chain summary (Chain Info).
C12_ResultJudged ==
    LastWellFormed =>
        /\ ~last.out.raised
        /\ LastEntry.passed = (last.probe = "test_peers" => PyLen(LastResult(1)) > 0)
        /\ last.probe \in DetailsHoldResult => Contained(LastEntry.details, LastResult(1))
        /\ last.probe \in DetailsHoldCount =>
              LastEntry.details = JObj([count |-> JNum(ListCount(LastResult(1)))])
        /\ last.probe = "test_account_balance" =>
              LastEntry.details =
                  JObj([balance |-> IF Has(LastResult(1), "data")
                                    THEN LastResult(1).f["data"].f["free"] ELSE JNum(0)])
        /\ last.probe = "test_chain_info" =>
              /\ LastEntry.details.f["chain"] = LastResult(1)
              /\ LastEntry.details.f["node_name"] = LastResult(4)
              /\ LastEntry.details.f["block"].k = "num"
\* Peers got the well-formed result [] and recorded a failure
C12_Witness ==
    /\ LastWellFormed /\ last.probe = "test_peers"
    /\ LastResult(1) = JList(<<>>)
    /\ ~LastEntry.passed /\ LastEntry.details = JObj([peers |-> JList(<<>>)])

\* the probes that count the items of a list result
CountProbes ==
    {"test_peers", "test_notarial_service", "test_proposals", "test_validator_set",
     "test_qrng_device_queues", "test_qrng_reconstruction"}
LastCounted == ~aiohttp_available /\ last.probe \in CountProbes /\ ~last.out.raised

\* C13 as stated: none of the counting probes treats an empty list as an
\* error; each fails only when the result key is absent.
C13_EmptyListNotAnError ==
    LastCounted =>
        /\ ~LastEntry.passed => ~LastHasResult(1)
        /\ (LastHasResult(1) /\ LastResult(1) = JList(<<>>)) => LastEntry.passed
\* C13 amended: Notarial, Proposals, Validator Set, QRNG Queues and QRNG
\* History do not treat an empty list as an error and fail only when the
\* result key is absent; Peers records passed = false, "0 peers connected",
\* for an empty list.
C13_EmptyListJudged ==
    LastCounted =>
        /\ last.probe # "test_peers" =>
              /\ ~LastEntry.passed => ~LastHasResult(1)
              /\ (LastHasResult(1) /\ LastResult(1) = JList(<<>>)) => LastEntry.passed
        /\ (last.probe = "test_peers" /\ LastHasResult(1) /\ LastResult(1) = JList(<<>>)) =>
              /\ ~LastEntry.passed
              /\ LastEntry.message = "0 peers connected"
\* Proposals got an empty list and recorded a pass
C13_Witness ==
    /\ LastCounted /\ last.probe = "test_proposals"
    /\ LastHasResult(1) /\ LastResult(1) = JList(<<>>)
    /\ LastEntry.passed /\ LastEntry.message = "0 proposals"

\* C14: the status table shows UNKNOWN for a canonical name exactly when no
\* entry of the log has that name and ONLINE or OFFLINE otherwise; the report
\* on an empty log is produced without a crash and shows 0 passed, 0 failed
\* and UNKNOWN for all six names.
C14_StatusTable ==
    summary.printed =>
        /\ outcome # "crashed" => summary = do_print_summary(PrintedLog)
        /\ \A i \in 1..Len(services) :
              /\ summary.table[i] = "UNKNOWN" <=> Indices(PrintedLog, services[i]) = {}
              /\ summary.table[i] \in {"UNKNOWN", "ONLINE", "OFFLINE"}
        /\ summary.total = 0 =>
              /\ summary.passed = 0 /\ summary.failed = 0 /\ summary.failures = <<>>
              /\ \A i \in 1..Len(services) : summary.table[i] = "UNKNOWN"
\* the report was produced on the empty log of a fresh agent
C14_Witness ==
    /\ summary.printed /\ summary.total = 0 /\ results = <<>>
    /\ outcome = "none" /\ Len(summary.table) = 6
    /\ \A i \in 1..Len(services) : summary.table[i] = "UNKNOWN"

\* what faucet_call("/health") returned to the latest probe, and the text of
\* the error message in it
HealthResponse == faucet_get(aiohttp_available, has_faucet_url, last.nets[1]).resp
HealthErrored ==
    /\ last.probe = "test_faucet_health" /\ Len(last.nets) = 1
    /\ Has(HealthResponse, "error") /\ IsDict(HealthResponse.f["error"])
HealthErrorMsg == Str(Get(HealthResponse.f["error"], "message", JStr("Unknown error")))
BadGateway == Contains(HealthErrorMsg, "502") \/ Contains(HealthErrorMsg, "Bad Gateway")
Refused == Contains(HealthErrorMsg, "Connection refused")

\* C15: when the faucet /health call returns an error, Faucet Health records
\* passed = false; a message containing "502" or "Bad Gateway" gives the
\* service-down sub-message, otherwise one containing "Connection refused"
\* gives the not-running sub-message, whose text contains "Connection
\* refused", and only a message containing none of the three gives the
\* generic fallback.
C15_FaucetHealthSubMessages ==
    HealthErrored =>
        /\ ~last.out.raised
        /\ ~LastEntry.passed /\ LastEntry.name = "Faucet Health"
        /\ last.out.ret = JBool(FALSE)
        /\ BadGateway => LastEntry.message = "502 Bad Gateway - Faucet service is down"
        /\ (Refused /\ ~BadGateway) =>
              /\ LastEntry.message = "Connection refused - Faucet not running"
              /\ Contains(LastEntry.message, "Connection refused")
        /\ LastEntry.message = "Error: " \o HealthErrorMsg <=> (~BadGateway /\ ~Refused)
\* the /health call was refused and the not-running sub-message recorded
C15_Witness ==
    /\ HealthErrored /\ last.nets[1] = NetUrl("[Errno 111] Connection refused")
    /\ HealthErrorMsg = "<urlopen error [Errno 111] Connection refused>"
    /\ ~LastEntry.passed
    /\ LastEntry.message = "Connection refused - Faucet not running"

\* the calls of the latest run that carry the selected account's address, and
\* those that carry the funding address
SelectedAddressCalls ==
    { i \in 1..Len(RunCalls) : RunCalls[i].method \in {"system_account", "POST /drip"} }
FundingAddressCalls ==
    { i \in 1..Len(RunCalls) :
        RunCalls[i].method \in {"gateway_balance", "gateway_nonce", "quantumharmony_getRewardsInfo"} }

\* C16: Account Selection always passes and yields one of Bob, Charlie, Dave,
\* Eve, Ferdie, never Alice; in a full run the address given to Account
\* Balance and Faucet Drip is the selected account's, which differs from the
\* funding address the gateway and rewards probes use.
C16_SelectedAccount ==
    /\ \A i \in 1..Len(results) :
          results[i].name = "Account Selection" =>
              /\ results[i].passed
              /\ \E n \in {"Bob", "Charlie", "Dave", "Eve", "Ferdie"} :
                    /\ results[i].details = JObj([address |-> JStr(DEV_ACCOUNTS[n]), name |-> JStr(n)])
                    /\ DEV_ACCOUNTS[n] # ALICE
    /\ last.probe = "generate_test_account" => (~last.out.raised /\ LastEntry.passed)
    /\ mode = "full" =>
          /\ \A i \in SelectedAddressCalls :
                /\ account # JNull
                /\ RunCalls[i].params = <<account.f["address"]>>
                /\ account.f["address"] = JStr(DEV_ACCOUNTS[account.f["name"].s])
                /\ RunCalls[i].params # <<JStr(ALICE)>>
          /\ \A i \in FundingAddressCalls : RunCalls[i].params = <<JStr(ALICE)>>
\* a full run that selected Eve, dripped to her address and queried the
\* gateway with the funding address
C16_Witness ==
    /\ mode = "full" /\ outcome = "reported"
    /\ account # JNull /\ account.f["name"] = JStr("Eve")
    /\ \E i \in SelectedAddressCalls : RunCalls[i].method = "POST /drip"
    /\ \E i \in SelectedAddressCalls : RunCalls[i].method = "system_account"
    /\ FundingAddressCalls # {}

\* the latest probe execution was this probe and it returned
LastReturned(probe) ==
    ~aiohttp_available /\ last.probe = probe /\ Len(last.nets) = 1 /\ ~last.out.raised

\* C17: Peers records passed = true if and only if system_peers returned a
\* result whose peer count is strictly greater than zero; for the result [] it
\* records passed = false with message "0 peers connected"; its details carry
\* the full peer list.
C17_PeersPassIffPositive ==
    LastReturned("test_peers") =>
        /\ LastEntry.name = "Peer Connections"
        /\ LastEntry.passed <=> (LastHasResult(1) /\ PyLen(LastResult(1)) > 0)
        /\ LastHasResult(1) =>
              /\ LastEntry.details = JObj([peers |-> LastResult(1)])
              /\ last.out.ret = LastResult(1)
        /\ (LastHasResult(1) /\ LastResult(1) = JList(<<>>)) =>
              /\ ~LastEntry.passed
              /\ LastEntry.message = "0 peers connected"
\* system_peers returned a list of one peer and Peers passed with it
C17_Witness ==
    /\ LastReturned("test_peers") /\ LastHasResult(1)
    /\ LastResult(1) = JList(<<JStr("x")>>)
    /\ LastEntry.passed /\ LastEntry.message = "1 peers connected"
    /\ LastEntry.details = JObj([peers |-> JList(<<JStr("x")>>)])

\* the error object of the response the Notarial probe got, if it is one
NotarialError == LastResponse(1).f["error"]
NotarialSoftError ==
    /\ ~LastHasResult(1) /\ Has(LastResponse(1), "error")
    /\ GetNone(NotarialError, "code") # JNum(-32601)

\* C18: the Notarial probe passes if a result is present, null and the empty
\* list included, or if an error object is present whose code is not -32601;
\* it fails only when the code is -32601 or the response has neither result
\* nor error.
C18_NotarialJudgement ==
    LastReturned("test_notarial_service") =>
        /\ LastEntry.name = "Notarial Service"
        /\ LastEntry.passed <=> (LastHasResult(1) \/ NotarialSoftError)
        /\ ~LastEntry.passed <=>
              \/ /\ ~LastHasResult(1) /\ Has(LastResponse(1), "error")
                 /\ GetNone(NotarialError, "code") = JNum(-32601)
              \/ ~LastHasResult(1) /\ ~Has(LastResponse(1), "error")
        /\ (LastHasResult(1) /\ LastResult(1) \in {JNull, JList(<<>>)}) =>
              /\ LastEntry.passed
              /\ LastEntry.message = "0 attestations found"
\* the node answered with a soft error and the probe passed
C18_Witness ==
    /\ LastReturned("test_notarial_service") /\ NotarialSoftError
    /\ GetNone(NotarialError, "code") = JNum(-32000)
    /\ LastEntry.passed /\ LastEntry.message = "Notarial service responding"
    /\ LastEntry.details = LastResponse(1)

\* C19: every run of either pipeline eventually terminates, aborted after
\* Connectivity or finished with the Report.
C19_EndsAbortedOrReported ==
    (pos > 0) ~> (pos = 0 /\ outcome \in {"aborted", "reported"})
\* a started pipeline comes to an end, be it by an escaping exception
C19_RunEnds == (pos > 0) ~> (pos = 0)
\* no step issues more than four transport calls, no step runs twice in a run:
\* the position only moves forward until the run ends
C19_NoRetry ==
    [][ /\ Len(calls') - Len(calls) <= 4
        /\ (pos > 0 /\ pos' # 0) => pos' = pos + 1 \/ pos' = pos + 3 ]_vars

\* the length the simulator has to serve for the request it served last
Requested ==
    IF request.args.present THEN IntText(request.args.text) ELSE 32
Clamped ==
    IF Requested < 1 THEN 1 ELSE IF Requested > 1024 THEN 1024 ELSE Requested
\* the request served last was for random data, with no length or an integer one
RandomServed ==
    /\ request.endpoint \in {"/v1/random", "/v1/random/hex"}
    /\ request.args.present => CanIntText(request.args.text)

\* C20: for /v1/random and /v1/random/hex the requested length N, 32 when
\* absent, is clamped to 1..1024: the length field of the response and the
\* number of random bytes in it equal the clamped value, and the request
\* makes the byte counter grow by exactly the clamped value, for every
\* integer N, zero and the negatives included.
C20_LengthClamped ==
    [][ RandomServed' /\ request'.endpoint = response'.endpoint =>
          /\ Clamped' \in 1..1024
          /\ response'.length = Clamped'
          /\ request'.endpoint = "/v1/random" =>
                /\ Len(response'.random_bytes) = Clamped'
                /\ \A i \in 1..Len(response'.random_bytes) : response'.random_bytes[i] \in 0..255
          /\ request'.endpoint = "/v1/random/hex" => Len(response'.random_hex) = 2 * Clamped'
          /\ stats'.bytes_generated = stats.bytes_generated + Clamped'
          /\ stats'.requests = stats.requests + 1 ]_simvars
\* requests for 0, -5 and 5000 bytes were served with 1, 1 and 1024
C20_Witness ==
    /\ stats.requests = 3 /\ stats.bytes_generated = 1 + 1 + 1024
    /\ request = [endpoint |-> "/v1/random/hex", args |-> LengthArg("-5")]
    /\ response.length = 1 /\ Len(response.random_hex) = 2

\* the Report step of a run that started with an empty ResultLog
FreshRunReports == At("print_summary") /\ run_start = 0 /\ pos' = 0
\* the step at which the run returns after a failed Connectivity
RunAborts == outcome = "running" /\ outcome' = "aborted"

\* C21: when a run started on a fresh agent reaches the Report, all six
\* canonical names are in the ResultLog, no category of the report is UNKNOWN
\* and the RPC category is ONLINE; a run that aborts prints no report.
C21_FreshReportComplete ==
    [][ /\ FreshRunReports =>
              /\ \A name \in {"RPC Connection", "Faucet Health", "QRNG Config",
                              "Notarial Service", "Governance Stats", "Validator Set"} :
                    \E i \in 1..Len(results) : results[i].name = name
              /\ summary'.printed /\ summary'.total = Len(results)
              /\ Len(summary'.table) = 6
              /\ \A i \in 1..Len(summary'.table) : summary'.table[i] \in {"ONLINE", "OFFLINE"}
              /\ summary'.table[1] = "ONLINE"
              /\ outcome' = "reported"
        /\ RunAborts => (summary' = summary /\ pos' = 0 /\ Len(results') = Len(results) + 1)
      ]_vars
\* a health run on a fresh agent has printed its report, with the faucet OFFLINE
C21_Witness ==
    /\ mode = "health" /\ run_start = 0 /\ outcome = "reported" /\ pos = 0
    /\ summary.printed /\ summary.total = 8 /\ Len(results) = 8
    /\ summary.table[1] = "ONLINE" /\ summary.table[2] = "OFFLINE"
    /\ \A i \in 1..6 : summary.table[i] # "UNKNOWN"

\* a faucet probe has just recorded
FaucetProbeRecords ==
    results' # results /\ last'.probe \in {"test_faucet_health", "test_faucet_drip"}
FaucetEntryName == IF last'.probe = "test_faucet_health" THEN "Faucet Health" ELSE "Faucet Drip"
\* the Report step of a full run
FullRunReports == At("print_summary") /\ mode = "full" /\ pos' = 0

\* C22: with no faucet URL configured, Faucet Health and Faucet Drip each
\* record passed = false with message "No faucet URL configured", issue no
\* network call and consume no RPC id; a full run then records no Faucet Drip
\* entry and exactly one Account Balance entry.
C22_NoFaucetUrl ==
    [][ ~has_faucet_url =>
          /\ FaucetProbeRecords =>
                /\ results' = Append(results, TestResult(FaucetEntryName, FALSE,
                                                         "No faucet URL configured", JNull))
                /\ ~last'.out.raised /\ last'.out.ret = JBool(FALSE)
                /\ last'.nets = <<>> /\ calls' = calls
                /\ rpc_id' = rpc_id
          /\ mode = "full" =>
                /\ Count(RunNames, "Faucet Drip") = 0
                /\ Count(RunNames, "Account Balance") <= 1
          /\ FullRunReports =>
                /\ Count(RunNames, "Faucet Health") = 1
                /\ Count(RunNames, "Faucet Drip") = 0
                /\ Count(RunNames, "Account Balance") = 1
                /\ \A i \in 1..Len(RunCalls) : RunCalls[i].fn = "rpc_call"
      ]_vars
\* without a faucet URL both probes were called on their own
C22_Witness ==
    /\ ~has_faucet_url /\ mode = "none" /\ outcome = "none"
    /\ last.probe = "test_faucet_drip" /\ last.nets = <<>>
    /\ results = <<TestResult("Faucet Health", FALSE, "No faucet URL configured", JNull),
                   TestResult("Faucet Drip", FALSE, "No faucet URL configured", JNull)>>
    /\ calls = <<>> /\ rpc_id = 0

\* no request is in service
Quiescent == \A t \in Threads : threads[t].pc \in {"idle", "done"}

\* C23: the simulator's counters are exact under concurrently served
\* requests: once the requests for random data that were started have
\* completed, stats.requests equals their number and stats.bytes_generated
\* the sum of their clamped lengths.
C23_StatsExact ==
    Quiescent =>
        /\ stats.requests = served.requests
        /\ stats.bytes_generated = served.bytes
====
